---- MODULE Spec2Model ----
(***************************************************************************)
(* Model of webscraping-colab-notebook.py: the WebExtractor session (three *)
(* instance fields), its query router process_query, the fetch and         *)
(* preprocessing path, and the response parser and result formatters.      *)
(*                                                                         *)
(* Text is a sequence of one-character strings, so that find, rfind,       *)
(* slicing, lower(), startswith, strip and split are computed character by *)
(* character.  The fixed message templates of the source are kept as       *)
(* single multi-character elements.                                        *)
(* An optional value (None or a value) is a sequence of length 0 or 1.     *)
(***************************************************************************)
EXTENDS Integers, Sequences, FiniteSets

(***************************************************************************)
(* Python str primitives.                                                  *)
(***************************************************************************)
None == <<>>

Some(x) == <<x>>

\* Python truthiness of an Optional[str]: None and "" are both falsy.
Falsy(opt) == opt = None \/ opt[1] = <<>>

\* str.lower() on one character (the letters that occur in the inputs).
LowerChar(ch) ==
    CASE ch = "H" -> "h" [] ch = "T" -> "t" [] ch = "P" -> "p"
      [] ch = "J" -> "j" [] ch = "S" -> "s" [] ch = "O" -> "o"
      [] ch = "N" -> "n" [] ch = "C" -> "c" [] ch = "V" -> "v"
      [] ch = "R" -> "r" [] ch = "I" -> "i" [] ch = "Y" -> "y"
      [] ch = "L" -> "l" [] ch = "E" -> "e" [] ch = "B" -> "b"
      [] OTHER -> ch

\* str.lower()
Lower(s) == [i \in 1..Len(s) |-> LowerChar(s[i])]

\* s[i:].startswith(lit), i a 1-based position
StartsWithAt(s, i, lit) ==
    /\ i >= 1
    /\ i + Len(lit) - 1 <= Len(s)
    /\ \A k \in 1..Len(lit) : s[i + k - 1] = lit[k]

\* str.startswith
StartsWith(s, lit) == StartsWithAt(s, 1, lit)

\* lit in s
Contains(s, lit) == \E i \in 1..(Len(s) + 1) : StartsWithAt(s, i, lit)

\* str.find(ch): 0-based index of the first occurrence, -1 when absent.
Find(s, ch) ==
    IF \E i \in 1..Len(s) : s[i] = ch
    THEN (CHOOSE i \in 1..Len(s) : s[i] = ch /\ \A j \in 1..(i - 1) : s[j] # ch) - 1
    ELSE -1

\* str.rfind(ch): 0-based index of the last occurrence, -1 when absent.
RFind(s, ch) ==
    IF \E i \in 1..Len(s) : s[i] = ch
    THEN (CHOOSE i \in 1..Len(s) : s[i] = ch /\ \A j \in (i + 1)..Len(s) : s[j] # ch) - 1
    ELSE -1

\* s[a:b] for a, b >= 0 (0-based, end exclusive, clamped to the length).
PySlice(s, a, b) ==
    LET hi == IF b > Len(s) THEN Len(s) ELSE b
    IN  IF a >= hi THEN <<>> ELSE SubSeq(s, a + 1, hi)

\* The characters str.strip() removes and str.splitlines() / split(" ") see.
Whitespace == {" ", "\n", "\t"}

RECURSIVE LStrip(_)
LStrip(s) ==
    IF s # <<>> /\ Head(s) \in Whitespace THEN LStrip(Tail(s)) ELSE s

RECURSIVE RStrip(_)
RStrip(s) ==
    IF s # <<>> /\ s[Len(s)] \in Whitespace
    THEN RStrip(SubSeq(s, 1, Len(s) - 1)) ELSE s

\* str.strip()
Strip(s) == RStrip(LStrip(s))

\* str.split(sep) for a one-character separator: always at least one piece.
RECURSIVE SplitAcc(_, _, _, _)
SplitAcc(s, sep, cur, acc) ==
    IF s = <<>> THEN Append(acc, cur)
    ELSE IF Head(s) = sep THEN SplitAcc(Tail(s), sep, <<>>, Append(acc, cur))
    ELSE SplitAcc(Tail(s), sep, Append(cur, Head(s)), acc)

Split(s, sep) == SplitAcc(s, sep, <<>>, <<>>)

\* str.splitlines(): like split("\n") but no piece for an empty string and
\* none after a final line break.
SplitLines(s) ==
    IF s = <<>> THEN <<>>
    ELSE IF s[Len(s)] = "\n" THEN Split(SubSeq(s, 1, Len(s) - 1), "\n")
    ELSE Split(s, "\n")

\* sep.join(parts)
RECURSIVE Join(_, _)
Join(parts, sep) ==
    IF parts = <<>> THEN <<>>
    ELSE IF Len(parts) = 1 THEN parts[1]
    ELSE parts[1] \o sep \o Join(Tail(parts), sep)

\* concatenation of a sequence of sequences
RECURSIVE Flatten(_)
Flatten(ss) == IF ss = <<>> THEN <<>> ELSE Head(ss) \o Flatten(Tail(ss))

\* [x for x in seq if x] : drop the empty strings
RECURSIVE NonEmpty(_)
NonEmpty(ss) ==
    IF ss = <<>> THEN <<>>
    ELSE IF Head(ss) = <<>> THEN NonEmpty(Tail(ss))
    ELSE <<Head(ss)>> \o NonEmpty(Tail(ss))

(***************************************************************************)
(* BeautifulSoup(content, 'html.parser'), decompose() of script and style, *)
(* and get_text(), for the markup that occurs in the pages below: start    *)
(* and end tags, script/style elements (raw text up to their end tag) and  *)
(* the character references &lt; &gt; &amp;.                               *)
(***************************************************************************)
Letters == {"a", "b", "c", "e", "g", "i", "l", "m", "p", "r", "s", "t", "x", "y",
            "B", "C", "I", "P", "R", "S", "T"}

IsLetterAt(c, i) == i >= 1 /\ i <= Len(c) /\ c[i] \in Letters

\* 1-based position of the first ch at or after position i, 0 when absent.
FindFrom(c, ch, i) ==
    IF \E k \in i..Len(c) : c[k] = ch
    THEN CHOOSE k \in i..Len(c) : c[k] = ch /\ \A j \in i..(k - 1) : c[j] # ch
    ELSE 0

\* the tag name starting at position i: the maximal run of letters, lower-cased
RECURSIVE NameAt(_, _)
NameAt(c, i) ==
    IF IsLetterAt(c, i) THEN <<LowerChar(c[i])>> \o NameAt(c, i + 1) ELSE <<>>

RawTextTags == { <<"s", "c", "r", "i", "p", "t">>, <<"s", "t", "y", "l", "e">> }

\* position just after the end tag </name ...> that closes a raw-text element
\* whose content starts at i; Len(c) + 1 when the element is never closed.
RECURSIVE AfterEndTag(_, _, _)
AfterEndTag(c, name, i) ==
    IF i > Len(c) THEN Len(c) + 1
    ELSE IF /\ StartsWithAt(c, i, <<"<", "/">>)
            /\ NameAt(c, i + 2) = name
            /\ FindFrom(c, ">", i + 2) # 0
         THEN FindFrom(c, ">", i + 2) + 1
    ELSE AfterEndTag(c, name, i + 1)

EntityChar(name) ==
    CASE name = <<"l", "t">> -> "<"
      [] name = <<"g", "t">> -> ">"
      [] name = <<"a", "m", "p">> -> "&"
      [] OTHER -> ""

\* soup.get_text() after the script/style elements were decomposed
RECURSIVE GetTextFrom(_, _, _)
GetTextFrom(c, i, acc) ==
    IF i > Len(c) THEN acc
    ELSE IF c[i] = "<" /\ IsLetterAt(c, i + 1) THEN
        LET close == FindFrom(c, ">", i + 1)
            name  == NameAt(c, i + 1)
        IN  IF close = 0 THEN acc \o SubSeq(c, i, Len(c))
            ELSE IF name \in RawTextTags
                 THEN GetTextFrom(c, AfterEndTag(c, name, close + 1), acc)
            ELSE GetTextFrom(c, close + 1, acc)
    ELSE IF StartsWithAt(c, i, <<"<", "/">>) /\ IsLetterAt(c, i + 2) THEN
        LET close == FindFrom(c, ">", i + 2)
        IN  IF close = 0 THEN acc \o SubSeq(c, i, Len(c))
            ELSE GetTextFrom(c, close + 1, acc)
    ELSE IF c[i] = "&" /\ EntityChar(NameAt(c, i + 1)) # "" THEN
        LET name == NameAt(c, i + 1)
            j    == i + 1 + Len(name)
        IN  IF j > Len(c) THEN acc \o SubSeq(c, i, Len(c))
            ELSE GetTextFrom(c, IF c[j] = ";" THEN j + 1 ELSE j,
                             Append(acc, EntityChar(name)))
    ELSE GetTextFrom(c, i + 1, Append(acc, c[i]))

GetText(content) == GetTextFrom(content, 1, <<>>)

\* chunks = (phrase.strip() for line in lines for phrase in line.split(" "))
Chunks(text) ==
    LET lines == [i \in 1..Len(SplitLines(text)) |-> Strip(SplitLines(text)[i])]
        perLine == [i \in 1..Len(lines) |->
                      LET ph == Split(lines[i], " ")
                      IN  [k \in 1..Len(ph) |-> Strip(ph[k])]]
    IN  Flatten(perLine)

\* PreprocessContent that rejoins the chunks with ", " instead of a line break
PreprocessContentCommaJoined(content) ==
    Join(NonEmpty(Chunks(GetText(content))), <<",", " ">>)

\* WebExtractor._preprocess_content
PreprocessContent(content) == Join(NonEmpty(Chunks(GetText(content))), <<"\n">>)

(***************************************************************************)
(* json.loads and json.dumps for the JSON that occurs in the completions   *)
(* below: arrays, objects, strings without escapes and unsigned integers.  *)
(* A value is a record [t, v]: t is "int" (v the digits), "str" (v the     *)
(* characters), "arr" (v the elements) or "obj" (v the members in          *)
(* insertion order, each [k, v]).  Anything else is a JSONDecodeError.     *)
(***************************************************************************)
Digits == {"0", "1", "2", "3", "4", "5", "6", "7", "8", "9"}

JsonWhitespace == {" ", "\n", "\t", "\r"}

RECURSIVE SkipWs(_, _)
SkipWs(s, i) ==
    IF i <= Len(s) /\ s[i] \in JsonWhitespace THEN SkipWs(s, i + 1) ELSE i

DecodeError == [ok |-> FALSE, val |-> <<>>, next |-> 0]

Decoded(v, n) == [ok |-> TRUE, val |-> v, next |-> n]

\* position after the maximal run of digits starting at i
RECURSIVE DigitsEnd(_, _)
DigitsEnd(s, i) ==
    IF i <= Len(s) /\ s[i] \in Digits THEN DigitsEnd(s, i + 1) ELSE i

\* d[key] = value on an insertion-ordered dict: a repeated key keeps its place
DictSet(members, key, value) ==
    IF \E n \in 1..Len(members) : members[n].k = key
    THEN [n \in 1..Len(members) |->
            IF members[n].k = key THEN [k |-> key, v |-> value] ELSE members[n]]
    ELSE Append(members, [k |-> key, v |-> value])

\* a string literal whose opening quote is at i
ParseString(s, i) ==
    LET close == FindFrom(s, "\"", i + 1)
    IN  IF close = 0 THEN DecodeError
        ELSE IF \E n \in (i + 1)..(close - 1) : s[n] \in {"\n", "\t", "\r"}
             THEN DecodeError
        ELSE Decoded([t |-> "str", v |-> SubSeq(s, i + 1, close - 1)], close + 1)

RECURSIVE ParseValue(_, _)
RECURSIVE ParseElements(_, _, _)
RECURSIVE ParseMembers(_, _, _)

\* the elements of an array, i at the first character of the next element
ParseElements(s, i, acc) ==
    LET r == ParseValue(s, i)
    IN  IF ~r.ok THEN DecodeError
        ELSE LET j == SkipWs(s, r.next)
             IN  IF j > Len(s) THEN DecodeError
                 ELSE IF s[j] = "," THEN ParseElements(s, SkipWs(s, j + 1), Append(acc, r.val))
                 ELSE IF s[j] = "]" THEN Decoded([t |-> "arr", v |-> Append(acc, r.val)], j + 1)
                 ELSE DecodeError

\* the members of an object, i at the opening quote of the next key
ParseMembers(s, i, acc) ==
    IF i > Len(s) \/ s[i] # "\"" THEN DecodeError
    ELSE LET key == ParseString(s, i)
         IN  IF ~key.ok THEN DecodeError
             ELSE LET c == SkipWs(s, key.next)
                  IN  IF c > Len(s) \/ s[c] # ":" THEN DecodeError
                      ELSE LET r == ParseValue(s, SkipWs(s, c + 1))
                           IN  IF ~r.ok THEN DecodeError
                               ELSE LET j == SkipWs(s, r.next)
                                        d == DictSet(acc, key.val.v, r.val)
                                    IN  IF j > Len(s) THEN DecodeError
                                        ELSE IF s[j] = "," THEN ParseMembers(s, SkipWs(s, j + 1), d)
                                        ELSE IF s[j] = "}" THEN Decoded([t |-> "obj", v |-> d], j + 1)
                                        ELSE DecodeError

\* one JSON value starting exactly at i
ParseValue(s, i) ==
    IF i > Len(s) THEN DecodeError
    ELSE IF s[i] = "[" THEN
        LET j == SkipWs(s, i + 1)
        IN  IF j <= Len(s) /\ s[j] = "]" THEN Decoded([t |-> "arr", v |-> <<>>], j + 1)
            ELSE ParseElements(s, j, <<>>)
    ELSE IF s[i] = "{" THEN
        LET j == SkipWs(s, i + 1)
        IN  IF j <= Len(s) /\ s[j] = "}" THEN Decoded([t |-> "obj", v |-> <<>>], j + 1)
            ELSE ParseMembers(s, j, <<>>)
    ELSE IF s[i] = "\"" THEN ParseString(s, i)
    ELSE IF s[i] = "0" THEN Decoded([t |-> "int", v |-> <<"0">>], i + 1)
    ELSE IF s[i] \in Digits THEN
        Decoded([t |-> "int", v |-> SubSeq(s, i, DigitsEnd(s, i) - 1)], DigitsEnd(s, i))
    ELSE DecodeError

\* json.loads(s): [ok |-> TRUE, val |-> value], or ok = FALSE for JSONDecodeError
\* (also when data follows the value).
JsonLoads(s) ==
    LET r == ParseValue(s, SkipWs(s, 1))
    IN  IF r.ok /\ SkipWs(s, r.next) = Len(s) + 1 THEN r ELSE DecodeError

\* json.dumps(value): separators ", " and ": "
RECURSIVE JsonDumps(_)
JsonDumps(value) ==
    CASE value.t = "int" -> value.v
      [] value.t = "str" -> <<"\"">> \o value.v \o <<"\"">>
      [] value.t = "arr" ->
            <<"[">> \o Join([n \in 1..Len(value.v) |-> JsonDumps(value.v[n])], <<",", " ">>)
                    \o <<"]">>
      [] value.t = "obj" ->
            <<"{">> \o Join([n \in 1..Len(value.v) |->
                               <<"\"">> \o value.v[n].k \o <<"\"", ":", " ">>
                                        \o JsonDumps(value.v[n].v)],
                            <<",", " ">>)
                    \o <<"}">>

\* the indentation json.dumps(indent=2) writes at a nesting level
RECURSIVE Indent(_)
Indent(level) == IF level = 0 THEN <<>> ELSE <<" ", " ">> \o Indent(level - 1)

\* json.dumps(value, indent=2) at a nesting level
RECURSIVE JsonDumpsIndent(_, _)
JsonDumpsIndent(value, level) ==
    CASE value.t = "int" -> value.v
      [] value.t = "str" -> <<"\"">> \o value.v \o <<"\"">>
      [] value.t = "arr" ->
            IF value.v = <<>> THEN <<"[", "]">>
            ELSE <<"[", "\n">> \o Indent(level + 1)
                 \o Join([n \in 1..Len(value.v) |-> JsonDumpsIndent(value.v[n], level + 1)],
                         <<",", "\n">> \o Indent(level + 1))
                 \o <<"\n">> \o Indent(level) \o <<"]">>
      [] value.t = "obj" ->
            IF value.v = <<>> THEN <<"{", "}">>
            ELSE <<"{", "\n">> \o Indent(level + 1)
                 \o Join([n \in 1..Len(value.v) |->
                            <<"\"">> \o value.v[n].k \o <<"\"", ":", " ">>
                                     \o JsonDumpsIndent(value.v[n].v, level + 1)],
                         <<",", "\n">> \o Indent(level + 1))
                 \o <<"\n">> \o Indent(level) \o <<"}">>

\* repr(value) of a parsed value (str in single quotes), and str(value) as an
\* f-string renders it.
RECURSIVE PyRepr(_)
PyRepr(value) ==
    CASE value.t = "int" -> value.v
      [] value.t = "str" -> <<"'">> \o value.v \o <<"'">>
      [] value.t = "arr" ->
            <<"[">> \o Join([n \in 1..Len(value.v) |-> PyRepr(value.v[n])], <<",", " ">>)
                    \o <<"]">>
      [] value.t = "obj" ->
            <<"{">> \o Join([n \in 1..Len(value.v) |->
                               <<"'">> \o value.v[n].k \o <<"'", ":", " ">>
                                       \o PyRepr(value.v[n].v)],
                            <<",", " ">>)
                    \o <<"}">>

PyStr(value) == IF value.t = "str" THEN value.v ELSE PyRepr(value)

(***************************************************************************)
(* pd.DataFrame(parsed_data).to_csv(index=False) for a non-empty list.     *)
(* The constructor dispatches on the first element: a list of dicts gives  *)
(* one column per key in order of first appearance, a list of lists one    *)
(* column per position, a list of scalars the single column 0.  A missing  *)
(* cell is NaN and is written as the empty field; an integer column with a *)
(* missing cell becomes float64, so its integers are written as "1.0".     *)
(***************************************************************************)
Raised(e) == [kind |-> "raise", text |-> <<>>, exc |-> e]

Returned(t) == [kind |-> "return", text |-> t, exc |-> ""]

\* the keys of the rows from row n on, in order of first appearance
RECURSIVE KeysUnion(_, _, _)
KeysUnion(rows, n, acc) ==
    IF n > Len(rows) THEN acc
    ELSE LET ks == [m \in 1..Len(rows[n].v) |-> rows[n].v[m].k]
             new == SelectSeq(ks, LAMBDA key : \A a \in 1..Len(acc) : acc[a] # key)
         IN  KeysUnion(rows, n + 1, acc \o new)

\* row.get(key) as an optional value
DictGet(row, key) ==
    IF \E m \in 1..Len(row.v) : row.v[m].k = key
    THEN Some(row.v[CHOOSE m \in 1..Len(row.v) : row.v[m].k = key].v)
    ELSE None

Max(a, b) == IF a >= b THEN a ELSE b

RECURSIVE MaxWidth(_)
MaxWidth(rows) == IF rows = <<>> THEN 0 ELSE Max(Len(Head(rows).v), MaxWidth(Tail(rows)))

\* the default column label of position n (0-based)
ColumnLabel(n) == <<"0", "1", "2", "3", "4", "5", "6", "7", "8", "9">>[n + 1]

\* the frame: [ok, cols, cells] with cells[r][c] an optional value, or the
\* exception the constructor raises.
DataFrame(data) ==
    IF data[1].t = "obj" THEN
        IF \E n \in 1..Len(data) : data[n].t # "obj"
        THEN [ok |-> FALSE, exc |-> "AttributeError", cols |-> <<>>, cells |-> <<>>]
        ELSE LET cols == KeysUnion(data, 1, <<>>)
             IN  [ok |-> TRUE, exc |-> "", cols |-> cols,
                  cells |-> [r \in 1..Len(data) |->
                               [c \in 1..Len(cols) |-> DictGet(data[r], cols[c])]]]
    ELSE IF data[1].t = "arr" THEN
        IF \E n \in 1..Len(data) : data[n].t # "arr"
        THEN [ok |-> FALSE, exc |-> "TypeError", cols |-> <<>>, cells |-> <<>>]
        ELSE LET w == MaxWidth(data)
             IN  [ok |-> TRUE, exc |-> "",
                  cols |-> [c \in 1..w |-> <<ColumnLabel(c - 1)>>],
                  cells |-> [r \in 1..Len(data) |->
                               [c \in 1..w |->
                                  IF c <= Len(data[r].v) THEN Some(data[r].v[c]) ELSE None]]]
    ELSE [ok |-> TRUE, exc |-> "", cols |-> <<<<ColumnLabel(0)>>>>,
          cells |-> [r \in 1..Len(data) |-> <<Some(data[r])>>]]

\* csv.QUOTE_MINIMAL: quote a field that holds the delimiter, a quote or a
\* line break, doubling its quotes.
CsvField(f) ==
    IF \E n \in 1..Len(f) : f[n] \in {",", "\"", "\n", "\r"}
    THEN <<"\"">> \o Flatten([n \in 1..Len(f) |->
                                IF f[n] = "\"" THEN <<"\"", "\"">> ELSE <<f[n]>>])
                  \o <<"\"">>
    ELSE f

\* one record of the csv writer; a record of one empty field is written ""
CsvLine(fields) ==
    IF Len(fields) = 1 /\ fields[1] = <<>> THEN <<"\"", "\"", "\n">>
    ELSE Join([n \in 1..Len(fields) |-> CsvField(fields[n])], <<",">>) \o <<"\n">>

\* df.to_csv(index=False)
ToCsv(df) ==
    LET floatCol(c) == /\ \E r \in 1..Len(df.cells) : df.cells[r][c] = None
                       /\ \A r \in 1..Len(df.cells) :
                             df.cells[r][c] # None => df.cells[r][c][1].t = "int"
        cell(r, c) == IF df.cells[r][c] = None THEN <<>>
                      ELSE IF floatCol(c) THEN df.cells[r][c][1].v \o <<".", "0">>
                      ELSE PyStr(df.cells[r][c][1])
    IN  CsvLine(df.cols)
        \o Flatten([r \in 1..Len(df.cells) |->
                      CsvLine([c \in 1..Len(df.cols) |-> cell(r, c)])])

(***************************************************************************)
(* The result formatters.  Each one parses its argument again.             *)
(***************************************************************************)
RawDataLimit == 500

\* the three backquotes that open and close a fenced block, as one element
\* (a TLA+ string cannot hold a backquote)
Fence == "(3 backquotes)"

InvalidJson(data) ==
    <<"Error: Invalid JSON data. Raw data: ">> \o PySlice(data, 0, RawDataLimit) \o <<"...">>

\* bool(parsed_data) is False: the empty list, dict or string, and 0
FalsyValue(value) == value.v = <<>> \/ (value.t = "int" /\ value.v = <<"0">>)

\* WebExtractor._format_as_json
FormatAsJson(data) ==
    LET parsed == JsonLoads(data)
    IN  IF parsed.ok
        THEN Returned(<<Fence, "json\n">> \o JsonDumpsIndent(parsed.val, 0) \o <<"\n", Fence>>)
        ELSE Returned(InvalidJson(data))

\* FormatAsCsv without the test for an empty list: the empty frame is written
\* as one empty line inside the fenced block
FormatAsCsvNoEmptyCheck(data) ==
    LET parsed == JsonLoads(data)
    IN  IF ~parsed.ok THEN Returned(InvalidJson(data))
        ELSE IF parsed.val.v = <<>>
             THEN Returned(<<Fence, "csv\n">> \o <<"\n">> \o <<"\n", Fence>>)
        ELSE LET df == DataFrame(parsed.val.v)
             IN  IF df.ok THEN Returned(<<Fence, "csv\n">> \o ToCsv(df) \o <<"\n", Fence>>)
                 ELSE Raised(df.exc)

\* WebExtractor._format_as_csv (data is the dump of a list)
FormatAsCsv(data) ==
    LET parsed == JsonLoads(data)
    IN  IF ~parsed.ok THEN Returned(InvalidJson(data))
        ELSE IF FalsyValue(parsed.val) THEN Returned(<<"No data to convert to CSV.">>)
        ELSE LET df == DataFrame(parsed.val.v)
             IN  IF df.ok THEN Returned(<<Fence, "csv\n">> \o ToCsv(df) \o <<"\n", Fence>>)
                 ELSE Raised(df.exc)

\* WebExtractor._format_as_text (data is the dump of a list): item.items()
\* raises AttributeError for an item that is not a dict.
FormatAsText(data) ==
    LET parsed == JsonLoads(data)
    IN  IF ~parsed.ok THEN Returned(data)
        ELSE IF \E n \in 1..Len(parsed.val.v) : parsed.val.v[n].t # "obj"
             THEN Raised("AttributeError")
        ELSE Returned(Join([n \in 1..Len(parsed.val.v) |->
                              Join([m \in 1..Len(parsed.val.v[n].v) |->
                                      parsed.val.v[n].v[m].k \o <<":", " ">>
                                          \o PyStr(parsed.val.v[n].v[m].v)],
                                   <<",", " ">>)],
                           <<"\n">>))

\* OutputMode that tests for "csv" before "json"
OutputModeCsvFirst(query) ==
    IF Contains(Lower(query), <<"c", "s", "v">>) THEN "csv"
    ELSE IF Contains(Lower(query), <<"j", "s", "o", "n">>) THEN "json"
    ELSE "text"

\* the branch _format_result takes for a query
OutputMode(query) ==
    IF Contains(Lower(query), <<"j", "s", "o", "n">>) THEN "json"
    ELSE IF Contains(Lower(query), <<"c", "s", "v">>) THEN "csv"
    ELSE "text"

\* WebExtractor._format_result
FormatResult(extracted_data, query) ==
    CASE OutputMode(query) = "json" -> FormatAsJson(extracted_data)
      [] OutputMode(query) = "csv" -> FormatAsCsv(extracted_data)
      [] OTHER -> FormatAsText(extracted_data)

\* the part of _extract_info after the model call: locating and parsing the
\* JSON array in the completion
ParseResponse(response, query) ==
    LET json_start == Find(response, "[")
        json_end == RFind(response, "]") + 1
    IN  IF json_start # -1 /\ json_end # -1
        THEN LET json_str == PySlice(response, json_start, json_end)
                 extracted_data == JsonLoads(json_str)
             IN  IF extracted_data.ok
                 THEN FormatResult(JsonDumps(extracted_data.val), query)
                 ELSE Returned(InvalidJson(json_str))
        ELSE Returned(<<"Error: Could not extract JSON data from the model's response.">>)

(***************************************************************************)
(* The environment: what the user types, what the network serves and what  *)
(* the model completes.                                                    *)
(***************************************************************************)
MaxPlainLen == 2

\* inputs that process_query routes to fetch_url
UrlInputs ==
    { <<"h", "t", "t", "p", ":", "/", "/", "a">>,
      <<"H", "T", "T", "P">> }

\* inputs that are not URLs: questions for each output mode, an input with
\* a leading blank, and the empty input
QuestionInputs ==
    { <<"l", "i", "n", "k", "s">>,
      <<"a", "s", " ", "j", "s", "o", "n">>,
      <<"t", "o", " ", "C", "S", "V">>,
      <<"j", "s", "o", "n", " ", "c", "s", "v">>,
      <<" ", "h", "t", "t", "p", ":", "/", "/", "a">>,
      <<>> }

Inputs == UrlInputs \cup QuestionInputs

\* page bodies without markup: every text of at most MaxPlainLen characters
PlainPages == UNION { [1..n -> {"x", " "}] : n \in 0..MaxPlainLen }

\* page bodies with tags, a script, a style sheet and character references
MarkupPages ==
    { <<"<", "b", ">", "x", "<", "/", "b", ">">>,
      <<"&", "l", "t", ";", "b", "&", "g", "t", ";", "x", "&", "l", "t", ";", "/", "b", "&", "g", "t", ";">>,
      <<"<", "s", "c", "r", "i", "p", "t", ">", "x", "<", "/", "s", "c", "r", "i", "p", "t", ">">>,
      <<"<", "p", ">", "x", " ", "y", "<", "/", "p", ">", "\n", "<", "s", "t", "y", "l", "e", ">", "s", "<", "/", "s", "t", "y", "l", "e", ">">>,
      <<"a", " ", "&", "a", "m", "p", ";", "l", "t", ";", " ", "b">>,
      <<"<", "p", ">", " ", "x", "\t", "y", " ", "<", "/", "p", ">">> }

Pages == PlainPages \cup MarkupPages

\* requests.get / raise_for_status failures
FetchErrors == {"HTTPError", "ConnectionError"}

\* generated_text values the model returns
Completions ==
    { <<"n", "o">>,
      <<"a", " ", "[", " ", "b">>,
      <<"x", "]">>,
      <<"]", " ", "[">>,
      <<"[", "]">>,
      <<"s", "e", "e", " ", "[", " ", "]", " ", ".">>,
      <<"o", "k", " ", "[", "{", "\"", "a", "\"", ":", " ", "1", "}", "]", " ", ".">>,
      <<"[", "{", "\"", "n", "\"", ":", "\"", "x", "\"", ",", "\"", "v", "\"", ":", "1", "}", ",", "{", "\"", "n", "\"", ":", "\"", "y", "\"", ",", "\"", "v", "\"", ":", "2", "}", "]">>,
      <<"[", "1", ",", " ", "2", "]">>,
      <<"[", "{", "\"", "a", "\"", ":", "1", "}", ",", "{", "\"", "b", "\"", ":", "2", "}", "]">>,
      <<"[", "{", "\"", "a", "\"", ":", "1", "}", ",", " ", "2", "]">>,
      <<"[", "x", "]">>,
      <<"[", "1", "]", " ", "[", "2", "]">>,
      <<"[", "[", "1", ",", "2", "]", ",", "[", "3", "]", "]">> }

(***************************************************************************)
(* The session.                                                            *)
(***************************************************************************)
VARIABLES
    current_url,           \* self.current_url (optional)
    current_content,       \* self.current_content (optional)
    preprocessed_content,  \* self.preprocessed_content (optional)
    user_input,            \* the argument of the last process_query call (optional)
    outcome,               \* what that call returned or raised
    before,                \* the three session fields when that call started
    requested,             \* the URL that call passed to requests.get (optional)
    model_request,         \* the request that call made to the model (optional)
    response,              \* the completion the model returned to it (optional)
    formatter,             \* the formatter that call reached (optional)
    fetched_from,          \* the URL whose body current_content is (optional)
    ever_fetched           \* some fetch has succeeded

vars == <<current_url, current_content, preprocessed_content, user_input, outcome,
          before, requested, model_request, response, formatter, fetched_from,
          ever_fetched>>

session == <<current_url, current_content, preprocessed_content>>

\* WebExtractor.__init__
Init ==
    /\ current_url = None
    /\ current_content = None
    /\ preprocessed_content = None
    /\ user_input = None
    /\ outcome = Returned(<<>>)
    /\ before = <<None, None, None>>
    /\ requested = None
    /\ model_request = None
    /\ response = None
    /\ formatter = None
    /\ fetched_from = None
    /\ ever_fetched = FALSE

PromptLimit == 500

MaxLength == 500

NumReturnSequences == 1

ProvideUrlFirst == <<"Please provide a URL first before asking for information.">>

\* the f-string fetch_url returns
Acknowledgment(url) ==
    <<"I've fetched and preprocessed the content from ">> \o url
        \o <<". What would you like to know about it?">>

\* the prompt of _extract_info
Prompt(content, query) ==
    <<"Based on the following webpage content and the user's request, extract the relevant information.\n        Always present the data as a JSON array of objects.\n        Webpage content: ">>
        \o PySlice(content, 0, PromptLimit) \o <<"...\n        Human: ">>
        \o query \o <<"\n        AI:">>

\* IsUrl without lower(): a case-sensitive prefix test
IsUrlCaseSensitive(input) == StartsWith(input, <<"h", "t", "t", "p">>)

\* IsUrl with "http" in s instead of startswith
IsUrlAnywhere(input) == Contains(Lower(input), <<"h", "t", "t", "p">>)

\* user_input.lower().startswith("http")
IsUrl(input) == StartsWith(Lower(input), <<"h", "t", "t", "p">>)

\* the name of the formatter _format_result calls for a query
FormatterOf(query) ==
    CASE OutputMode(query) = "json" -> "_format_as_json"
      [] OutputMode(query) = "csv" -> "_format_as_csv"
      [] OTHER -> "_format_as_text"

\* BaseScraper.fetch_content raises: fetch_url has assigned current_url and
\* nothing else.
FetchFails(url, e) ==
    /\ current_url' = Some(url)
    /\ UNCHANGED <<current_content, preprocessed_content, fetched_from, ever_fetched>>
    /\ outcome' = Raised(e)

\* FetchSucceeds that keeps the body in a local and never stores it
FetchSucceedsDroppingContent(url, page) ==
    /\ current_url' = Some(url)
    /\ UNCHANGED current_content
    /\ preprocessed_content' = Some(PreprocessContent(page))
    /\ fetched_from' = Some(url)
    /\ ever_fetched' = TRUE
    /\ outcome' = Returned(Acknowledgment(url))

\* BaseScraper.fetch_content returns the body of the page
FetchSucceeds(url, page) ==
    /\ current_url' = Some(url)
    /\ current_content' = Some(page)
    /\ preprocessed_content' = Some(PreprocessContent(page))
    /\ fetched_from' = Some(url)
    /\ ever_fetched' = TRUE
    /\ outcome' = Returned(Acknowledgment(url))

\* WebExtractor.fetch_url
FetchUrl(url) ==
    /\ requested' = Some(url)
    /\ model_request' = None
    /\ response' = None
    /\ formatter' = None
    /\ \/ \E page \in Pages : FetchSucceeds(url, page)
       \/ \E e \in FetchErrors : FetchFails(url, e)

\* a branch that returns the fixed request for a URL
AskForUrl ==
    /\ outcome' = Returned(ProvideUrlFirst)
    /\ requested' = None
    /\ model_request' = None
    /\ response' = None
    /\ formatter' = None
    /\ UNCHANGED <<current_url, current_content, preprocessed_content, fetched_from,
                   ever_fetched>>

\* the model call of _extract_info raises
ModelFails(query) ==
    /\ response' = None
    /\ formatter' = None
    /\ outcome' = Raised("ModelError")

\* the model call of _extract_info returns a completion
ModelCompletes(query, completion) ==
    /\ response' = Some(completion)
    /\ formatter' = IF /\ Find(completion, "[") # -1
                       /\ JsonLoads(PySlice(completion, Find(completion, "["),
                                            RFind(completion, "]") + 1)).ok
                    THEN Some(FormatterOf(query)) ELSE None
    /\ outcome' = ParseResponse(completion, query)

\* WebExtractor._extract_info
ExtractInfo(query) ==
    IF Falsy(preprocessed_content) THEN AskForUrl
    ELSE /\ model_request' = Some([prompt |-> Prompt(preprocessed_content[1], query),
                                   max_length |-> MaxLength,
                                   num_return_sequences |-> NumReturnSequences])
         /\ requested' = None
         /\ UNCHANGED <<current_url, current_content, preprocessed_content,
                        fetched_from, ever_fetched>>
         /\ \/ \E completion \in Completions : ModelCompletes(query, completion)
            \/ ModelFails(query)

\* WebExtractor.process_query
ProcessQuery(input) ==
    /\ user_input' = Some(input)
    /\ before' = session
    /\ IF IsUrl(input) THEN FetchUrl(input)
       ELSE IF Falsy(current_content) THEN AskForUrl
       ELSE ExtractInfo(input)

Next == \E input \in Inputs : ProcessQuery(input)

Spec == Init /\ [][Next]_vars

(***************************************************************************)
(* Properties.  They are stated over the record of the last call, with     *)
(* their own reading of "begins with http" and of the output mode.         *)
(***************************************************************************)
UpperOf == { <<"h", "H">>, <<"t", "T">>, <<"p", "P">>, <<"j", "J">>, <<"s", "S">>,
             <<"o", "O">>, <<"n", "N">>, <<"c", "C">>, <<"v", "V">> }

\* ch is the lower-case letter w or its upper-case form
IsLetter(ch, w) == ch = w \/ <<w, ch>> \in UpperOf

\* the word w occurs in s at position i, in any mix of cases
WordAt(s, i, w) ==
    /\ i + Len(w) - 1 <= Len(s)
    /\ \A k \in 1..Len(w) : IsLetter(s[i + k - 1], w[k])

BeginsWithHttp(s) == WordAt(s, 1, <<"h", "t", "t", "p">>)

Mentions(s, w) == \E i \in 1..Len(s) : WordAt(s, i, w)

\* a call was made, and its input did / did not begin with http
UrlCall == user_input # None /\ BeginsWithHttp(user_input[1])

QuestionCall == user_input # None /\ ~BeginsWithHttp(user_input[1])

SessionUnchanged == session = before

\* the JSON array the last completion carries between its first "[" and its
\* last "]", as an optional parsed value
CarriedArray ==
    IF response = None \/ Find(response[1], "[") = -1 THEN None
    ELSE LET r == JsonLoads(PySlice(response[1], Find(response[1], "["),
                                    RFind(response[1], "]") + 1))
         IN  IF r.ok THEN Some(r.val) ELSE None

\* C1: an input that begins with http in any case is fetched as the URL,
\* exactly as typed, whatever the session held before; the model is not
\* invoked; and when the fetch succeeds the call returns the acknowledgment
\* that says "fetched and preprocessed" and names the URL.
C1_UrlAlwaysFetched ==
    UrlCall =>
        /\ requested = user_input
        /\ model_request = None
        /\ response = None
        /\ outcome.kind = "return" =>
              outcome.text = <<"I've fetched and preprocessed the content from ">>
                                 \o user_input[1]
                                 \o <<". What would you like to know about it?">>

\* an upper-case URL was fetched successfully in a session whose previous
\* fetch had failed (URL recorded, no content)
C1_Witness ==
    /\ UrlCall
    /\ user_input[1][1] = "H"
    /\ before[1] # None
    /\ before[2] = None
    /\ outcome.kind = "return"

\* C2: an input that does not begin with http, given while current_content
\* is unset, is answered with the fixed request for a URL, without a fetch,
\* without a model call and without a change to the session.
C2_NoPageAsksForUrl ==
    (QuestionCall /\ before[2] = None) =>
        /\ outcome = Returned(<<"Please provide a URL first before asking for information.">>)
        /\ requested = None
        /\ model_request = None
        /\ SessionUnchanged

\* an input with http after a leading blank was given while no content was
\* held, after a failed fetch had recorded a URL
C2_Witness ==
    /\ QuestionCall
    /\ before[2] = None
    /\ before[1] # None
    /\ Mentions(user_input[1], <<"h", "t", "t", "p">>)

\* C3: once a fetch has succeeded, an input that does not begin with http
\* makes exactly one model request for one completion and is never answered
\* with the request for a URL.
C3_QuestionReachesModel ==
    (QuestionCall /\ ever_fetched) =>
        /\ model_request # None
        /\ model_request[1].num_return_sequences = 1
        /\ outcome # Returned(<<"Please provide a URL first before asking for information.">>)

\* C4: a failed fetch and a question leave the three session fields as they
\* were, and the content held is the content fetched from current_url.
C4_FieldsChangeOnlyOnSuccess ==
    /\ (UrlCall /\ outcome.kind = "raise") => SessionUnchanged
    /\ QuestionCall => SessionUnchanged
    /\ current_content # None =>
          /\ fetched_from = current_url
          /\ preprocessed_content = Some(PreprocessContent(current_content[1]))

\* C5: preprocessed_content is set only if current_content is set.
C5_PreprocessedImpliesContent ==
    preprocessed_content # None => current_content # None

\* a page is loaded and a later fetch has failed
C5_Witness ==
    /\ preprocessed_content # None
    /\ UrlCall
    /\ outcome.kind = "raise"

\* C6: a completion that lacks "[" or lacks "]" is answered with the fixed
\* could-not-extract message.
C6_NoBracketPairIsFixedError ==
    (response # None /\ (Find(response[1], "[") = -1 \/ Find(response[1], "]") = -1)) =>
        outcome = Returned(<<"Error: Could not extract JSON data from the model's response.">>)

\* C7: whatever completion the model returns, the call returns a string and
\* raises nothing.
C7_CompletionNeverRaises ==
    response # None => outcome.kind = "return"

\* C8: the formatter reached is decided by the query alone: JSON if the query
\* mentions json in any case (also next to csv), else CSV if it mentions csv,
\* else text.
C8_ModeFromQueryOnly ==
    formatter # None =>
        formatter[1] = IF Mentions(user_input[1], <<"j", "s", "o", "n">>)
                           THEN "_format_as_json"
                       ELSE IF Mentions(user_input[1], <<"c", "s", "v">>)
                           THEN "_format_as_csv"
                       ELSE "_format_as_text"

\* a query that mentions both json and csv reached a formatter
C8_Witness ==
    /\ formatter # None
    /\ Mentions(user_input[1], <<"j", "s", "o", "n">>)
    /\ Mentions(user_input[1], <<"c", "s", "v">>)

\* C9 as stated: preprocessing its own output changes nothing, for every page.
C9_PreprocessIdempotent ==
    preprocessed_content # None =>
        PreprocessContent(preprocessed_content[1]) = preprocessed_content[1]

\* C9 amended: preprocessing its own output changes nothing when the visible
\* text of the page holds neither "<" nor "&".
C9_PreprocessIdempotentOnPlainText ==
    (/\ preprocessed_content # None
     /\ \A i \in 1..Len(GetText(current_content[1])) :
           GetText(current_content[1])[i] \notin {"<", "&"}) =>
        PreprocessContent(preprocessed_content[1]) = preprocessed_content[1]

\* a page with markup and a style sheet was flattened to several chunks
C9_Witness ==
    /\ preprocessed_content # None
    /\ \A i \in 1..Len(GetText(current_content[1])) :
          GetText(current_content[1])[i] \notin {"<", "&"}
    /\ \E i \in 1..Len(current_content[1]) : current_content[1][i] = "<"
    /\ \E i \in 1..Len(preprocessed_content[1]) : preprocessed_content[1][i] = "\n"

\* C10: in CSV mode an empty array is answered with exactly "No data to
\* convert to CSV." and a non-empty array of objects inside a block fenced
\* and labelled csv.
C10_CsvEmptyAndFenced ==
    (/\ CarriedArray # None
     /\ ~Mentions(user_input[1], <<"j", "s", "o", "n">>)
     /\ Mentions(user_input[1], <<"c", "s", "v">>)) =>
        /\ CarriedArray[1].v = <<>> =>
              outcome = Returned(<<"No data to convert to CSV.">>)
        /\ (/\ CarriedArray[1].v # <<>>
            /\ \A n \in 1..Len(CarriedArray[1].v) : CarriedArray[1].v[n].t = "obj") =>
              /\ outcome.kind = "return"
              /\ Len(outcome.text) >= 4
              /\ SubSeq(outcome.text, 1, 2) = <<Fence, "csv\n">>
              /\ SubSeq(outcome.text, Len(outcome.text) - 1, Len(outcome.text)) = <<"\n", Fence>>

\* a CSV question was answered from an empty array
C10_Witness ==
    /\ CarriedArray # None
    /\ CarriedArray[1].v = <<>>
    /\ Mentions(user_input[1], <<"c", "s", "v">>)
    /\ ~Mentions(user_input[1], <<"j", "s", "o", "n">>)
    /\ outcome.kind = "return"

====
